---- MODULE Spec2Model ----
(***************************************************************************)
(* Model of api/src/database/run-ast.ts: the relational query executor     *)
(* that walks an AST level by level, issues one batched query per nested   *)
(* relation, merges the children into their parents and finally strips the *)
(* temporary join fields.                                                  *)
(***************************************************************************)
EXTENDS Integers, Sequences, FiniteSets, TLC

\* ------------------------------------------------------------------------
\* Bounds of the model
\* ------------------------------------------------------------------------
MaxBooks == 3
MaxSections == 2
\* rows by which the large books table exceeds the default limit
BatchOverflow == 2

\* ------------------------------------------------------------------------
\* JavaScript values.  Every value is a tagged record so that values of
\* different JavaScript types can be compared.
\* ------------------------------------------------------------------------
Null == [t |-> "null"]
Undef == [t |-> "undef"]
Throw == [t |-> "throw"]
N(i) == [t |-> "n", v |-> i]
Str(s) == [t |-> "str", v |-> s]
Row(f) == [t |-> "row", f |-> f]
List(s) == [t |-> "list", s |-> s]
Map(m) == [t |-> "map", m |-> m]

IsNullish(v) == v.t \in {"null", "undef"}
IsPrimitive(v) == v.t \in {"null", "undef", "n", "str"}

\* if (x) ...: null, undefined, 0 and '' are falsy, objects and arrays truthy
Truthy(v) ==
    CASE v.t \in {"null", "undef"} -> FALSE
      [] v.t = "n" -> v.v # 0
      [] v.t = "str" -> v.v # ""
      [] OTHER -> TRUE

\* a === b: primitives by value, objects by identity (two rows read from
\* different places are never the same object)
StrictEq(a, b) == IsPrimitive(a) /\ IsPrimitive(b) /\ a = b

\* obj[key]; undefined when the key is absent or obj is a primitive
Get(obj, key) ==
    IF obj.t = "row" /\ key \in DOMAIN obj.f THEN obj.f[key] ELSE Undef

\* obj[key] = val
Put(obj, key, val) ==
    Row([k \in (DOMAIN obj.f) \cup {key} |-> IF k = key THEN val ELSE obj.f[k]])

\* lodash pick(obj, keys): a new object with the listed keys that obj has
Pick(obj, keys) ==
    IF obj.t = "row"
    THEN Row([k \in {x \in DOMAIN obj.f : \E i \in 1..Len(keys) : keys[i] = x} |-> obj.f[k]])
    ELSE Row(<<>>)

Includes(seq, x) == \E i \in 1..Len(seq) : seq[i] = x

\* lodash uniq: first occurrences, order kept; uniq(undefined) is []
Uniq(seq) ==
    LET first == SelectSeq([i \in 1..Len(seq) |-> i],
                           LAMBDA i : \A j \in 1..(i - 1) : seq[j] # seq[i])
    IN  [k \in 1..Len(first) |-> seq[first[k]]]

\* Array.prototype.slice(0, n), with the negative-end rule of JavaScript
Slice0(seq, n) ==
    LET end == IF n < 0 THEN (IF Len(seq) + n < 0 THEN 0 ELSE Len(seq) + n)
               ELSE (IF n > Len(seq) THEN Len(seq) ELSE n)
    IN  SubSeq(seq, 1, end)

\* utils/to-array: an array stays, anything else becomes a one-element array
ToArray(v) == IF v.t = "list" THEN v.s ELSE <<v>>

\* ------------------------------------------------------------------------
\* Schema facade (knex-schema-inspector): primary key and columns of every
\* collection, and the relation descriptors the AST nodes carry.
\* ------------------------------------------------------------------------
Collections == {"authors", "books", "sections", "headings", "images"}

primary(collection) == IF collection = "images" THEN "uid" ELSE "id"

columns(collection) ==
    CASE collection = "authors" -> <<"id", "name">>
      [] collection = "books" -> <<"id", "title", "author_id">>
      [] collection = "sections" -> <<"id", "item", "collection">>
      [] collection = "headings" -> <<"id", "text">>
      [] collection = "images" -> <<"uid", "url">>

\* a nested node whose relation could not be resolved carries no descriptor
NoRelation == [kind |-> "none"]

\* books.author_id -> authors.id, read as M2O from books and O2M from authors
RelBooksAuthor ==
    [kind |-> "rel", many_collection |-> "books", many_field |-> "author_id",
     many_primary |-> "id", one_collection |-> "authors", one_field |-> "books",
     one_primary |-> "id", one_collection_field |-> ""]

\* sections.item + sections.collection -> headings | images (M2A)
RelSectionsItem ==
    [kind |-> "rel", many_collection |-> "sections", many_field |-> "item",
     many_primary |-> "id", one_collection |-> "", one_field |-> "",
     one_primary |-> "", one_collection_field |-> "collection"]

\* ------------------------------------------------------------------------
\* AST nodes (types/ast) and logical queries.  A node carries the fields the
\* executor reads: relatedKey is read of M2A nodes only.
\* ------------------------------------------------------------------------
Field(name) == [type |-> "field", name |-> name]

Query(filter, limit) == [filter |-> filter, sort |-> Undef, limit |-> limit]

EmptyQuery == Query(Undef, Undef)

M2ONode(children, relation) ==
    [type |-> "m2o", name |-> "authors", children |-> children, query |-> EmptyQuery,
     fieldKey |-> "author_id", relation |-> relation, parentKey |-> "id"]

O2MNode(children, limit) ==
    [type |-> "o2m", name |-> "books", children |-> children,
     query |-> Query(Undef, limit), fieldKey |-> "books",
     relation |-> RelBooksAuthor, parentKey |-> "id"]

M2ANode(headingsChildren, imagesChildren) ==
    [type |-> "m2a", names |-> <<"headings", "images">>,
     children |-> [headings |-> headingsChildren, images |-> imagesChildren],
     query |-> [headings |-> EmptyQuery, images |-> EmptyQuery],
     relatedKey |-> [headings |-> "id", images |-> "uid"],
     fieldKey |-> "item", relation |-> RelSectionsItem, parentKey |-> "id"]

RootNode(collection, children) ==
    [type |-> "root", name |-> collection, children |-> children, query |-> EmptyQuery]

\* the ASTs a caller hands to runAST
BooksASTs ==
    LET m2o == {<<>>}
               \cup {<<M2ONode(ch, RelBooksAuthor)>> :
                        ch \in {<<>>, <<Field("name")>>, <<Field("id"), Field("name")>>}}
               \cup {<<M2ONode(<<Field("name")>>, NoRelation)>>}
    IN  {RootNode("books", fs \o n) : fs \in {<<>>, <<Field("title")>>}, n \in m2o}

AuthorsASTs ==
    LET back == M2ONode(<<Field("name")>>, RelBooksAuthor)
    IN  {RootNode("authors", <<Field("name"), O2MNode(ch, N(1))>>) :
            ch \in {<<>>, <<Field("title")>>,
                    <<Field("title"), Field("author_id")>>, <<back>>}}
        \cup {RootNode("authors", <<Field("name"), O2MNode(<<Field("title")>>, l)>>) :
                l \in {Undef, N(-1), N(0), N(2)}}
        \cup {RootNode("authors", <<O2MNode(<<>>, N(2))>>)}

SectionsASTs ==
    {RootNode("sections", fs \o <<M2ANode(h, i)>>) :
        fs \in {<<>>, <<Field("id")>>, <<Field("id"), Field("collection")>>},
        h \in {<<>>, <<Field("text")>>},
        i \in {<<>>, <<Field("url")>>}}

\* a nested node whose query carries a filter the caller supplied
WithFilter(node, filter) == [node EXCEPT !.query.filter = filter]

\* ASTs with a caller-supplied filter on the nested node: on a plain column
\* of the related collection, and on the join column itself
FilteredASTs ==
    {RootNode("books", <<Field("title"),
                         WithFilter(M2ONode(<<Field("name")>>, RelBooksAuthor), f)>>) :
        f \in {[t |-> "obj", m |-> [name |-> <<N(101)>>]],
               [t |-> "obj", m |-> [id |-> <<N(1)>>]]}}
    \cup {RootNode("authors", <<Field("name"),
                                WithFilter(O2MNode(<<Field("title")>>, N(2)), f)>>) :
            f \in {[t |-> "obj", m |-> [title |-> <<N(11), N(12)>>]],
                   [t |-> "obj", m |-> [author_id |-> <<N(1)>>]]}}

\* ASTs with the wildcard field node at the root level and below
WildcardASTs ==
    {RootNode("books", <<Field("*")>>),
     RootNode("books", <<Field("*"), M2ONode(<<Field("*")>>, RelBooksAuthor)>>),
     RootNode("authors", <<Field("*"), O2MNode(<<Field("*")>>, N(2))>>)}

ASTs == BooksASTs \cup AuthorsASTs \cup SectionsASTs \cup FilteredASTs
            \cup WildcardASTs

\* ------------------------------------------------------------------------
\* Database contents.  A table is the sequence of its rows in the order the
\* database returns them when no ORDER BY is given.
\* ------------------------------------------------------------------------
RECURSIVE SeqsUpTo(_, _)
SeqsUpTo(S, n) ==
    IF n = 0 THEN {<<>>}
    ELSE LET shorter == SeqsUpTo(S, n - 1)
         IN  shorter \cup {Append(s, x) : s \in {q \in shorter : Len(q) = n - 1}, x \in S}

AuthorRow(i) == Row([id |-> N(i), name |-> N(100 + i)])

AuthorsTables ==
    {<<AuthorRow(1)>>, <<AuthorRow(2), AuthorRow(1)>>, <<AuthorRow(0), AuthorRow(1)>>}

\* the books table: row i has id i and the i-th foreign key of fks
BooksTable(fks) ==
    [i \in 1..Len(fks) |-> Row([id |-> N(i), title |-> N(10 + i), author_id |-> fks[i]])]

BooksTables == {BooksTable(fks) : fks \in SeqsUpTo({Null, N(0), N(1), N(2)}, MaxBooks)}

SectionsTable(refs) ==
    [i \in 1..Len(refs) |->
        Row([id |-> N(i), item |-> refs[i][2], collection |-> refs[i][1]])]

SectionsTables ==
    {SectionsTable(refs) :
        refs \in SeqsUpTo({Str("headings"), Str("images"), Str("authors"), Null}
                            \X {N(1), N(2)},
                          MaxSections)}

HeadingsTable == <<Row([id |-> N(1), text |-> N(11)])>>

ImagesTable == <<Row([uid |-> N(2), url |-> N(22)]), Row([uid |-> N(1), url |-> N(21)])>>

Database(authors, books, sections) ==
    [authors |-> authors, books |-> books, sections |-> sections,
     headings |-> HeadingsTable, images |-> ImagesTable]

\* a books table with more rows than the default limit of a query: the
\* first half belongs to author 1, the rest to author 2
LargeBooksTable ==
    LET n == 100 + BatchOverflow
    IN  BooksTable([i \in 1..n |-> IF 2 * i <= n THEN N(1) ELSE N(2)])

\* the databases an AST can be run against: the tables its tree reads vary
DatabasesFor(ast) ==
    CASE ast.name = "sections" -> {Database(<<>>, <<>>, s) : s \in SectionsTables}
      [] ast.name = "authors" ->
            {Database(a, b, <<>>) : a \in AuthorsTables, b \in BooksTables}
                \cup {Database(<<AuthorRow(2), AuthorRow(1)>>, LargeBooksTable, <<>>)}
      [] OTHER -> {Database(a, b, <<>>) : a \in AuthorsTables, b \in BooksTables}

\* ------------------------------------------------------------------------
\* Filters and the query executor (utils/apply-query on top of knex)
\* ------------------------------------------------------------------------
\* { column: { _in: [...] }, ... }
FObj(m) == [t |-> "obj", m |-> m]
\* { _and: [ ... ] }
FAnd(fs) == [t |-> "and", fs |-> fs]

\* ...(filter || {}) followed by one more key: the later key wins
SpreadWith(filter, column, values) ==
    LET old == IF filter.t = "obj" THEN filter.m ELSE <<>>
    IN  FObj([c \in (DOMAIN old) \cup {column} |-> IF c = column THEN values ELSE old[c]])

RECURSIVE Matches(_, _)
Matches(row, filter) ==
    CASE filter.t = "undef" -> TRUE
      [] filter.t = "obj" ->
            \A c \in DOMAIN filter.m :
                /\ ~IsNullish(Get(row, c))
                /\ Includes(filter.m[c], Get(row, c))
      [] filter.t = "and" -> \A i \in 1..Len(filter.fs) : Matches(row, filter.fs[i])

\* ORDER BY column: stable insertion sort of rows on a numeric column
RECURSIVE SortBy(_, _, _)
SortBy(rows, column, order) ==
    IF Len(rows) <= 1 THEN rows
    ELSE LET sorted == SortBy(SubSeq(rows, 1, Len(rows) - 1), column, order)
             x == rows[Len(rows)]
             Before(r) == IF order = "asc" THEN Get(r, column).v <= Get(x, column).v
                          ELSE Get(r, column).v >= Get(x, column).v
             k == Cardinality({i \in 1..Len(sorted) : Before(sorted[i])})
         IN  SubSeq(sorted, 1, k) \o <<x>> \o SubSeq(sorted, k + 1, Len(sorted))

\* SELECT table.column, ...; table.* stands for every column
Project(row, table, cols) ==
    LET wanted == {c \in DOMAIN row.f : Includes(cols, c) \/ Includes(cols, "*")}
    IN  Row([c \in wanted |-> row.f[c]])

\* the rows the database returns for an executable query
Execute(database, q) ==
    LET matching == SelectSeq(database[q.table], LAMBDA r : Matches(r, q.filter))
        ordered == IF q.sort.t = "undef" THEN matching
                   ELSE SortBy(matching, q.sort.column, q.sort.order)
        limited == IF q.limit.t = "n" THEN Slice0(ordered, q.limit.v) ELSE ordered
    IN  [i \in 1..Len(limited) |-> Project(limited[i], q.table, q.columns)]

\* ------------------------------------------------------------------------
\* parseCurrentLevel
\* ------------------------------------------------------------------------
ChildColumns(collection, child) ==
    CASE child.type = "field" ->
            IF Includes(columns(collection), child.name) \/ child.name = "*"
            THEN <<child.name>> ELSE <<>>
      [] child.type # "field" /\ child.relation.kind = "none" -> <<>>
      [] child.type = "m2o" /\ child.relation.kind # "none" -> <<child.relation.many_field>>
      [] child.type = "m2a" /\ child.relation.kind # "none" ->
            <<child.relation.many_field, child.relation.one_collection_field>>
      [] OTHER -> <<>>

RECURSIVE RequestedColumns(_, _)
RequestedColumns(collection, children) ==
    IF Len(children) = 0 THEN <<>>
    ELSE ChildColumns(collection, Head(children))
            \o RequestedColumns(collection, Tail(children))

IsNested(child) == child.type # "field" /\ child.relation.kind # "none"

\* positions, in declaration order, of the children that are nested nodes
\* with a relation (the elements of nestedCollectionNodes are these nodes)
NestedPositions(children) ==
    LET idx == [i \in 1..Len(children) |-> i]
    IN  SelectSeq(idx, LAMBDA i : IsNested(children[i]))

parseCurrentLevel(collection, children) ==
    LET requested == RequestedColumns(collection, children)
        primaryKeyField == primary(collection)
    IN  [columnsToSelect |-> IF Includes(requested, primaryKeyField) THEN requested
                             ELSE Append(requested, primaryKeyField),
         primaryKeyField |-> primaryKeyField,
         nestedCollectionNodes |-> NestedPositions(children)]

\* ------------------------------------------------------------------------
\* getDBQuery
\* ------------------------------------------------------------------------
DefaultLimit == 100

\* variant: a query without a limit is executed without one
getDBQueryWithoutDefault(table, cols, query) ==
    [table |-> table, columns |-> cols, filter |-> query.filter,
     sort |-> query.sort,
     limit |-> IF query.limit.t = "n" /\ query.limit # N(-1) THEN query.limit ELSE Undef]

\* the query handed to applyQuery: a shallow copy with the limit defaulted
\* and the unlimited sentinel removed; its sort is the one the copy took
getDBQuery(table, cols, query) ==
    LET limit == IF query.limit.t = "n" THEN query.limit ELSE N(DefaultLimit)
    IN  [table |-> table, columns |-> cols, filter |-> query.filter,
         sort |-> query.sort,
         limit |-> IF limit = N(-1) THEN Undef ELSE limit]

\* query.sort = query.sort || [{ column: primaryKeyField, order: 'asc' }]
SortDefaulted(query, primaryKeyField) ==
    IF query.sort.t = "undef"
    THEN [query EXCEPT !.sort = [t |-> "sort", column |-> primaryKeyField, order |-> "asc"]]
    ELSE query

\* ------------------------------------------------------------------------
\* applyParentFilters
\* ------------------------------------------------------------------------
ValuesOf(items, column) == [i \in 1..Len(items) |-> Get(items[i], column)]

\* uniq(parentItems.map(...)).filter((id) => id)
InValues(parentItems, column) ==
    SelectSeq(Uniq(ValuesOf(parentItems, column)), Truthy)

\* keysPerCollection[relatedCollection] of the M2A branch
KeysPerCollection(parentItems, node, relatedCollection) ==
    ValuesOf(SelectSeq(parentItems,
                       LAMBDA p : Get(p, node.relation.one_collection_field)
                                    = Str(relatedCollection)),
             node.relation.many_field)

ApplyM2AFilter(node, parentItems, relatedCollection) ==
    LET old == node.query[relatedCollection]
        injected == FObj([c \in {node.relatedKey[relatedCollection]} |->
                            Uniq(KeysPerCollection(parentItems, node, relatedCollection))])
    IN  [old EXCEPT !.filter = FAnd(SelectSeq(<<old.filter, injected>>, Truthy))]

applyParentFiltersToNode(nestedNode, parentItems) ==
    CASE nestedNode.type = "m2o" ->
            [nestedNode EXCEPT !.query.filter =
                SpreadWith(@, nestedNode.relation.one_primary,
                           InValues(parentItems, nestedNode.relation.many_field))]
      [] nestedNode.type = "o2m" ->
            LET relatedM2OisFetched ==
                    \E i \in 1..Len(nestedNode.children) :
                        /\ nestedNode.children[i].type = "field"
                        /\ nestedNode.children[i].name = nestedNode.relation.many_field
            IN  [nestedNode EXCEPT
                    !.children = IF relatedM2OisFetched THEN @
                                 ELSE Append(@, Field(nestedNode.relation.many_field)),
                    !.query.filter =
                        SpreadWith(@, nestedNode.relation.many_field,
                                   InValues(parentItems, nestedNode.parentKey))]
      [] nestedNode.type = "m2a" ->
            [nestedNode EXCEPT !.query =
                [c \in DOMAIN @ |->
                    IF Includes(nestedNode.names, c)
                    THEN ApplyM2AFilter(nestedNode, parentItems, c) ELSE @[c]]]

\* the children of a level after the nested nodes among them were rewritten
applyParentFilters(children, parentItems) ==
    [i \in 1..Len(children) |->
        IF IsNested(children[i]) THEN applyParentFiltersToNode(children[i], parentItems)
        ELSE children[i]]

\* ------------------------------------------------------------------------
\* mergeWithParentItems
\* ------------------------------------------------------------------------
\* Array.prototype.findIndex over the outcomes of the test, 1-based; 0 when
\* no element passes
FirstIndex(passes) ==
    LET hits == {i \in 1..Len(passes) : passes[i]}
    IN  IF hits = {} THEN 0 ELSE CHOOSE i \in hits : \A j \in hits : i <= j

\* position in nestedItems of the child an M2O parent is given (0: none)
M2OChildIndex(nestedItems, parentItem, nestedNode) ==
    FirstIndex([i \in 1..Len(nestedItems) |->
                   StrictEq(Get(nestedItems[i], nestedNode.relation.one_primary),
                            Get(parentItem, nestedNode.fieldKey))])

\* the children of one O2M parent, before the limit is re-applied
O2MChildren(nestedItems, parentItem, nestedNode) ==
    LET parentKey == Get(parentItem, nestedNode.relation.one_primary)
    IN  SelectSeq(nestedItems,
            LAMBDA c :
                /\ c.t # "null"
                /\ \/ Get(c, nestedNode.relation.many_field).t = "list"
                   \/ StrictEq(Get(c, nestedNode.relation.many_field), parentKey)
                   \/ StrictEq(Get(Get(c, nestedNode.relation.many_field),
                                   nestedNode.relation.one_primary), parentKey))

\* the collection an M2A parent names, "" when its discriminator is no
\* key of the per-collection results
M2ACollection(nestedItem, parentItem, nestedNode) ==
    LET d == Get(parentItem, nestedNode.relation.one_collection_field)
    IN  IF d.t = "str" /\ d.v \in DOMAIN nestedItem.m THEN d.v ELSE ""

M2AChildIndex(nestedItem, parentItem, nestedNode) ==
    LET c == M2ACollection(nestedItem, parentItem, nestedNode)
        related == ToArray(nestedItem.m[c])
    IN  FirstIndex([i \in 1..Len(related) |->
                       StrictEq(Get(related[i], nestedNode.relatedKey[c]),
                                Get(parentItem, nestedNode.fieldKey))])

MergeOne(nestedItem, parentItem, nestedNode, o2mLimit) ==
    CASE nestedNode.type = "m2o" ->
            LET k == M2OChildIndex(ToArray(nestedItem), parentItem, nestedNode)
            IN  Put(parentItem, nestedNode.fieldKey,
                    IF k = 0 THEN Null ELSE ToArray(nestedItem)[k])
      [] nestedNode.type = "o2m" ->
            LET all == O2MChildren(ToArray(nestedItem), parentItem, nestedNode)
                itemChildren == IF o2mLimit.t = "null" THEN all
                                ELSE Slice0(all, o2mLimit.v)
            IN  Put(parentItem, nestedNode.fieldKey,
                    IF Len(itemChildren) > 0 THEN List(itemChildren) ELSE Null)
      [] nestedNode.type = "m2a" ->
            \* undefined.find(...) is a TypeError
            IF M2ACollection(nestedItem, parentItem, nestedNode) = "" THEN Throw
            ELSE LET c == M2ACollection(nestedItem, parentItem, nestedNode)
                     k == M2AChildIndex(nestedItem, parentItem, nestedNode)
                 IN  Put(parentItem, nestedNode.fieldKey,
                         IF k = 0 THEN Null ELSE ToArray(nestedItem.m[c])[k])

\* the parent rows with the children attached, or Throw
mergeWithParentItems(nestedItem, parentItems, nestedNode, o2mLimit) ==
    LET merged == [i \in 1..Len(parentItems) |->
                      MergeOne(nestedItem, parentItems[i], nestedNode, o2mLimit)]
    IN  IF \E i \in 1..Len(merged) : merged[i] = Throw THEN Throw ELSE List(merged)

\* nestedNode.query.limit = o2mLimit, done while the O2M parents are walked
LimitRestored(nestedNode, o2mLimit) ==
    IF nestedNode.type = "o2m" /\ o2mLimit.t # "null"
    THEN [nestedNode EXCEPT !.query.limit = o2mLimit] ELSE nestedNode

\* ------------------------------------------------------------------------
\* removeTemporaryFields
\* ------------------------------------------------------------------------
\* the names requested at a level: field names and nested field keys
FieldsOf(children) ==
    [i \in 1..Len(children) |->
        IF children[i].type = "field" THEN children[i].name ELSE children[i].fieldKey]

\* every non-field child, with or without a relation descriptor
NestedNodesOf(children) == SelectSeq(children, LAMBDA c : c.type # "field")

\* the first element of outcomes that ends the loop early (a null or
\* undefined raw item is returned, a TypeError is thrown), 0 when none does
FirstEarlyExit(rawItems, outcomes) ==
    FirstIndex([i \in 1..Len(rawItems) |->
                   IsNullish(rawItems[i]) \/ outcomes[i] = Throw])

\* variant: the primary-key fallback also taken for a single requested field
ProjectedOffByOne(item, fields, primaryKeyField) ==
    IF Len(fields) > 1 THEN Pick(item, fields) ELSE Get(item, primaryKeyField)

\* variant: the row is returned with every fetched column
ProjectedWholeRow(item, fields, primaryKeyField) ==
    IF Len(fields) > 0 THEN item ELSE Get(item, primaryKeyField)

\* fields.length > 0 ? pick(rawItem, fields) : rawItem[primaryKeyField]
Projected(item, fields, primaryKeyField) ==
    IF Len(fields) > 0 THEN Pick(item, fields) ELSE Get(item, primaryKeyField)

RECURSIVE removeTemporaryFields(_, _, _, _)
RECURSIVE StripNested(_, _, _)

\* item[nestedNode.fieldKey] = removeTemporaryFields(...) for every nested
\* node in turn; Throw when reading the relation of a node without one, or
\* when assigning a property on a primitive, fails.  Under an M2A level the
\* key passed down is always relation.many_primary.
StripNested(item, nestedNodes, underM2A) ==
    IF Len(nestedNodes) = 0 THEN item
    ELSE LET nestedNode == Head(nestedNodes)
         IN  IF nestedNode.relation.kind = "none" \/ item.t # "row" THEN Throw
             ELSE LET stripped ==
                          removeTemporaryFields(
                              Get(item, nestedNode.fieldKey), nestedNode,
                              IF nestedNode.type = "m2o" /\ ~underM2A
                              THEN nestedNode.relation.one_primary
                              ELSE nestedNode.relation.many_primary,
                              item)
                  IN  IF stripped = Throw THEN Throw
                      ELSE StripNested(Put(item, nestedNode.fieldKey, stripped),
                                       Tail(nestedNodes), underM2A)

removeTemporaryFields(rawItem, ast, primaryKeyField, parentItem) ==
    LET rawItems == ToArray(rawItem)
        relatedCollection == Get(parentItem, ast.relation.one_collection_field)
        \* the M2A branch reads the child list of the collection the parent names
        known == relatedCollection.t = "str" /\ Includes(ast.names, relatedCollection.v)
        StripOne(raw) ==
            IF ast.type = "m2a"
            THEN IF ~known THEN Throw
                 ELSE LET children == ast.children[relatedCollection.v]
                          item == StripNested(raw, NestedNodesOf(children), TRUE)
                      IN  IF item = Throw THEN Throw
                          ELSE Projected(item, FieldsOf(children), primaryKeyField)
            ELSE LET item == StripNested(raw, NestedNodesOf(ast.children), FALSE)
                 IN  IF item = Throw THEN Throw
                     ELSE Projected(item, FieldsOf(ast.children), primaryKeyField)
        outcomes == [i \in 1..Len(rawItems) |->
                        IF IsNullish(rawItems[i]) THEN rawItems[i]
                        ELSE StripOne(rawItems[i])]
        exit == FirstEarlyExit(rawItems, outcomes)
    IN  IF exit # 0 THEN outcomes[exit]
        ELSE IF rawItem.t = "list" THEN List(outcomes)
        ELSE outcomes[1]

\* ------------------------------------------------------------------------
\* State of one outermost runAST call
\* ------------------------------------------------------------------------
VARIABLES
    originalAST,   \* the AST object the caller passed
    database,      \* the tables the query executor reads
    stack,         \* the runAST invocations in progress, outermost first
    pc,            \* "idle", "running", "done" or "failed"
    result,        \* what the outermost call returned
    err,           \* the failure the outermost call ended with
    queries,       \* the queries handed to the query executor, in order
    merged,        \* items of the outermost level as handed to removeTemporaryFields
    lastMerge,     \* the arguments of the latest mergeWithParentItems call
    calls,         \* number of outermost calls started
    firstResult    \* result of the first outermost call

vars == <<originalAST, database, stack, pc, result, err, queries, merged,
          lastMerge, calls, firstResult>>

NoResult == [t |-> "none"]
NoMerge == [type |-> "none"]

\* lodash cloneDeep: an equal value that shares nothing with its argument
cloneDeep(v) == v

\* variant: the call works on the caller's object itself
CallerASTShared(passed, working) == working

\* The object the caller passed, after the working copy of the outermost
\* call was rewritten: the working copy is a deep clone, so no write
\* reaches the caller's object.
CallerAST(passed, working) == passed

NewFrame(node, child) ==
    [ast |-> cloneDeep(node), child |-> child, ci |-> 1, results |-> <<>>,
     pc |-> "query", items |-> <<>>, i |-> 0, tempLimit |-> Null, ret |-> Undef]

Top == stack[Len(stack)]

LevelCollection(fr) == IF fr.ast.type = "m2a" THEN fr.ast.names[fr.ci] ELSE fr.ast.name

LevelChildren(fr) ==
    IF fr.ast.type = "m2a" THEN fr.ast.children[LevelCollection(fr)] ELSE fr.ast.children

LevelQuery(fr) ==
    IF fr.ast.type = "m2a" THEN fr.ast.query[LevelCollection(fr)] ELSE fr.ast.query

SetChildren(fr, children) ==
    IF fr.ast.type = "m2a"
    THEN [fr EXCEPT !.ast.children[LevelCollection(fr)] = children]
    ELSE [fr EXCEPT !.ast.children = children]

SetQuery(fr, query) ==
    IF fr.ast.type = "m2a"
    THEN [fr EXCEPT !.ast.query[LevelCollection(fr)] = query]
    ELSE [fr EXCEPT !.ast.query = query]

\* variant: an M2A invocation returns after its first collection
RunReturnsFirstOnly(fr, rv) ==
    IF fr.ast.type = "m2a"
    THEN LET c == LevelCollection(fr)
             results == [k \in (DOMAIN fr.results) \cup {c} |->
                            IF k = c THEN rv ELSE fr.results[k]]
         IN  [fr EXCEPT !.results = results, !.ret = Map(results), !.pc = "return"]
    ELSE [fr EXCEPT !.ret = rv, !.pc = "return"]

\* run() returned rv: an M2A invocation stores it and goes on with the next
\* collection, any other invocation returns it
RunReturns(fr, rv) ==
    IF fr.ast.type = "m2a"
    THEN LET c == LevelCollection(fr)
             results == [k \in (DOMAIN fr.results) \cup {c} |->
                            IF k = c THEN rv ELSE fr.results[k]]
         IN  IF fr.ci < Len(fr.ast.names)
             THEN [fr EXCEPT !.results = results, !.ci = @ + 1, !.pc = "query",
                             !.items = <<>>, !.i = 0, !.tempLimit = Null]
             ELSE [fr EXCEPT !.results = results, !.ret = Map(results), !.pc = "return"]
    ELSE [fr EXCEPT !.ret = rv, !.pc = "return"]

ReplaceTop(fr) == [stack EXCEPT ![Len(stack)] = fr]

\* the caller's AST object once the outermost frame holds the working copy fr
OriginalAfter(fr) ==
    IF Len(stack) = 1 THEN CallerAST(originalAST, fr.ast) ELSE originalAST

Init ==
    /\ originalAST \in ASTs
    /\ database \in DatabasesFor(originalAST)
    /\ stack = <<>>
    /\ pc = "idle"
    /\ result = NoResult
    /\ err = "none"
    /\ queries = <<>>
    /\ merged = NoResult
    /\ lastMerge = NoMerge
    /\ calls = 0
    /\ firstResult = NoResult

\* runAST(originalAST) is called
Call ==
    /\ pc = "idle"
    /\ pc' = "running"
    /\ stack' = <<NewFrame(originalAST, FALSE)>>
    /\ calls' = 1
    /\ UNCHANGED <<originalAST, database, result, err, queries, merged, lastMerge,
                   firstResult>>

\* the executable query of the level the top frame is at
LevelDBQuery(fr) ==
    getDBQuery(LevelCollection(fr),
               parseCurrentLevel(LevelCollection(fr), LevelChildren(fr)).columnsToSelect,
               LevelQuery(fr))

QueryIssued(fr, rows, ok) ==
    [q |-> LevelDBQuery(fr), rows |-> rows, ok |-> ok, via |-> fr.ast.type,
     depth |-> Len(stack)]

\* variant: a level without rows returns null
ReturnedWhenEmptyNull(rawItems) == Null

\* if (!rawItems) return null; if (!items || items.length === 0) return items:
\* the array the query resolved with is truthy also when it is empty, so a
\* level without rows returns that empty array
ReturnedWhenEmpty(rawItems) == IF Truthy(rawItems) THEN rawItems ELSE Null

\* variant: a level without rows goes on to its nested nodes
NothingToMergeNever(items) == FALSE

\* !items || items.length === 0
NothingToMerge(items) == ~Truthy(items) \/ Len(items.s) = 0

\* parseCurrentLevel, getDBQuery, the query and processValues of one level
QueryLevel ==
    /\ pc = "running"
    /\ Top.pc = "query"
    /\ LET fr == SetQuery(Top, SortDefaulted(LevelQuery(Top),
                                              primary(LevelCollection(Top))))
           rawItems == Execute(database, LevelDBQuery(Top))
       IN  /\ queries' = Append(queries, QueryIssued(Top, rawItems, TRUE))
           /\ stack' = ReplaceTop(
                  IF NothingToMerge(List(rawItems))
                  THEN RunReturns(fr, ReturnedWhenEmpty(List(rawItems)))
                  ELSE [fr EXCEPT !.items = rawItems, !.pc = "filters"])
           /\ originalAST' = OriginalAfter(fr)
    /\ UNCHANGED <<database, pc, result, err, merged, lastMerge, calls, firstResult>>

\* variant: a failed query is taken for an empty result
QueryFailsSwallowed ==
    /\ pc = "running"
    /\ Top.pc = "query"
    /\ queries' = Append(queries, QueryIssued(Top, <<>>, FALSE))
    /\ stack' = ReplaceTop(RunReturns(Top, List(<<>>)))
    /\ UNCHANGED <<originalAST, database, pc, result, err, merged, lastMerge, calls,
                   firstResult>>

\* the query executor fails: the rejection leaves every pending call
QueryFails ==
    /\ pc = "running"
    /\ Top.pc = "query"
    /\ queries' = Append(queries, QueryIssued(Top, <<>>, FALSE))
    /\ pc' = "failed"
    /\ err' = "QueryFailure"
    /\ stack' = <<>>
    /\ UNCHANGED <<originalAST, database, result, merged, lastMerge, calls, firstResult>>

\* nestedNodes = applyParentFilters(nestedCollectionNodes, items)
InjectFilters ==
    /\ pc = "running"
    /\ Top.pc = "filters"
    /\ LET fr == [SetChildren(Top, applyParentFilters(LevelChildren(Top), Top.items))
                    EXCEPT !.pc = "loop", !.i = 1]
       IN  /\ stack' = ReplaceTop(fr)
           /\ originalAST' = OriginalAfter(fr)
    /\ UNCHANGED <<database, pc, result, err, queries, merged, lastMerge, calls,
                   firstResult>>

\* the nested node the loop of the top frame is at
CurrentNested(fr) ==
    LevelChildren(fr)[parseCurrentLevel(LevelCollection(fr),
                                        LevelChildren(fr)).nestedCollectionNodes[fr.i]]

NestedCount(fr) ==
    Len(parseCurrentLevel(LevelCollection(fr), LevelChildren(fr)).nestedCollectionNodes)

SetCurrentNested(fr, node) ==
    LET pos == parseCurrentLevel(LevelCollection(fr),
                                 LevelChildren(fr)).nestedCollectionNodes[fr.i]
    IN  SetChildren(fr, [LevelChildren(fr) EXCEPT ![pos] = node])

\* an O2M node with a numeric limit is fetched unlimited
TempLimit(nestedNode) ==
    IF nestedNode.type = "o2m" /\ nestedNode.query.limit.t = "n"
    THEN nestedNode.query.limit ELSE Null

\* variant: the batched O2M query keeps the caller's limit
UnlimitedSkipped(nestedNode) == nestedNode

Unlimited(nestedNode) ==
    IF nestedNode.type = "o2m" /\ nestedNode.query.limit.t = "n"
    THEN [nestedNode EXCEPT !.query.limit = N(-1)] ELSE nestedNode

\* runAST(nestedNode, { knex, child: true }) is called
EnterNested ==
    /\ pc = "running"
    /\ Top.pc = "loop"
    /\ Top.i <= NestedCount(Top)
    /\ LET nestedNode == Unlimited(CurrentNested(Top))
           fr == [SetCurrentNested(Top, nestedNode)
                    EXCEPT !.pc = "await", !.tempLimit = TempLimit(CurrentNested(Top))]
       IN  /\ stack' = Append(ReplaceTop(fr), NewFrame(nestedNode, TRUE))
           /\ originalAST' = OriginalAfter(fr)
    /\ UNCHANGED <<database, pc, result, err, queries, merged, lastMerge, calls,
                   firstResult>>

\* a nested call is through with its nested nodes and returns its items
FinishChildLevel ==
    /\ pc = "running"
    /\ Top.pc = "loop"
    /\ Top.i > NestedCount(Top)
    /\ Top.child
    /\ stack' = ReplaceTop(RunReturns(Top, List(Top.items)))
    /\ UNCHANGED <<originalAST, database, pc, result, err, queries, merged, lastMerge,
                   calls, firstResult>>

Stripped(fr) ==
    removeTemporaryFields(List(fr.items), originalAST,
                          primary(LevelCollection(fr)), Undef)

\* the outermost call strips the temporary fields and returns
StripAndFinish ==
    /\ pc = "running"
    /\ Top.pc = "loop"
    /\ Top.i > NestedCount(Top)
    /\ ~Top.child
    /\ Stripped(Top) # Throw
    /\ merged' = List(Top.items)
    /\ stack' = ReplaceTop(RunReturns(Top, Stripped(Top)))
    /\ UNCHANGED <<originalAST, database, pc, result, err, queries, lastMerge, calls,
                   firstResult>>

\* removeTemporaryFields throws a TypeError
StripThrows ==
    /\ pc = "running"
    /\ Top.pc = "loop"
    /\ Top.i > NestedCount(Top)
    /\ ~Top.child
    /\ Stripped(Top) = Throw
    /\ merged' = List(Top.items)
    /\ pc' = "failed"
    /\ err' = "TypeError in removeTemporaryFields"
    /\ stack' = <<>>
    /\ UNCHANGED <<originalAST, database, result, queries, lastMerge, calls, firstResult>>

\* ------------------------------------------------------------------------
\* Return of a nested call and merge
\* ------------------------------------------------------------------------
\* variant: every parent is given a copy of its own
AttachedCopy(collection, index, parentIndex) ==
    [collection |-> collection, index |-> index, copy |-> parentIndex]

\* The object a parent's field key refers to after an M2O or M2A merge: the
\* found element of the nested items itself; no copy is made per parent.
AttachedObject(collection, index, parentIndex) ==
    [collection |-> collection, index |-> index, copy |-> 0]

NoObject == [collection |-> "", index |-> 0, copy |-> 0]

\* for every parent row, the object mergeWithParentItems attaches to it
MergeRefs(nestedItem, parentItems, nestedNode) ==
    [p \in 1..Len(parentItems) |->
        CASE nestedNode.type = "m2o" ->
                LET k == M2OChildIndex(ToArray(nestedItem), parentItems[p], nestedNode)
                IN  IF k = 0 THEN NoObject ELSE AttachedObject("", k, p)
          [] nestedNode.type = "m2a"
                /\ M2ACollection(nestedItem, parentItems[p], nestedNode) # "" ->
                LET k == M2AChildIndex(nestedItem, parentItems[p], nestedNode)
                IN  IF k = 0 THEN NoObject
                    ELSE AttachedObject(M2ACollection(nestedItem, parentItems[p], nestedNode),
                                        k, p)
          [] OTHER -> NoObject]

Caller == stack[Len(stack) - 1]

\* variant: an empty nested result is not merged
ItemsAfterNestedSkipEmpty ==
    IF Truthy(Top.ret) /\ ~(Top.ret.t = "list" /\ Len(Top.ret.s) = 0)
    THEN mergeWithParentItems(Top.ret, Caller.items, CurrentNested(Caller),
                              Caller.tempLimit)
    ELSE List(Caller.items)

\* what the loop of the calling level holds in items after the nested call
\* returned: the merge result when nestedItems is truthy
ItemsAfterNested ==
    IF Truthy(Top.ret)
    THEN mergeWithParentItems(Top.ret, Caller.items, CurrentNested(Caller),
                              Caller.tempLimit)
    ELSE List(Caller.items)

\* a nested runAST call returns and its items are merged into the parents
ReturnNested ==
    /\ pc = "running"
    /\ Len(stack) >= 2
    /\ Top.pc = "return"
    /\ ItemsAfterNested # Throw
    /\ LET nestedNode == IF Truthy(Top.ret)
                         THEN LimitRestored(CurrentNested(Caller), Caller.tempLimit)
                         ELSE CurrentNested(Caller)
           fr == [SetCurrentNested(Caller, nestedNode)
                    EXCEPT !.items = ItemsAfterNested.s, !.i = @ + 1, !.pc = "loop",
                           !.tempLimit = Null]
       IN  /\ stack' = Append(SubSeq(stack, 1, Len(stack) - 2), fr)
           /\ originalAST' = IF Len(stack) = 2 THEN CallerAST(originalAST, fr.ast)
                             ELSE originalAST
    /\ lastMerge' = IF Truthy(Top.ret)
                    THEN [type |-> CurrentNested(Caller).type,
                          nestedNode |-> CurrentNested(Caller),
                          nestedItem |-> Top.ret,
                          parentItems |-> Caller.items,
                          o2mLimit |-> Caller.tempLimit,
                          depth |-> Len(stack) - 1,
                          refs |-> MergeRefs(Top.ret, Caller.items, CurrentNested(Caller))]
                    ELSE lastMerge
    /\ UNCHANGED <<database, pc, result, err, queries, merged, calls, firstResult>>

\* mergeWithParentItems throws a TypeError
MergeThrows ==
    /\ pc = "running"
    /\ Len(stack) >= 2
    /\ Top.pc = "return"
    /\ ItemsAfterNested = Throw
    /\ pc' = "failed"
    /\ err' = "TypeError in mergeWithParentItems"
    /\ stack' = <<>>
    /\ UNCHANGED <<originalAST, database, result, queries, merged, lastMerge, calls,
                   firstResult>>

\* the outermost call returns
ReturnOutermost ==
    /\ pc = "running"
    /\ Len(stack) = 1
    /\ Top.pc = "return"
    /\ result' = Top.ret
    /\ pc' = "done"
    /\ stack' = <<>>
    /\ UNCHANGED <<originalAST, database, err, queries, merged, lastMerge, calls,
                   firstResult>>

\* the caller runs the same AST object once more over the same database
CallAgain ==
    /\ pc = "done"
    /\ calls = 1
    /\ calls' = 2
    /\ firstResult' = result
    /\ result' = NoResult
    /\ queries' = <<>>
    /\ merged' = NoResult
    /\ lastMerge' = NoMerge
    /\ stack' = <<NewFrame(originalAST, FALSE)>>
    /\ pc' = "running"
    /\ UNCHANGED <<originalAST, database, err>>

Next ==
    \/ Call
    \/ QueryLevel
    \/ QueryFails
    \/ InjectFilters
    \/ EnterNested
    \/ FinishChildLevel
    \/ StripAndFinish
    \/ StripThrows
    \/ ReturnNested
    \/ MergeThrows
    \/ ReturnOutermost
    \/ CallAgain

Spec == Init /\ [][Next]_vars

\* ------------------------------------------------------------------------
\* Properties
\* ------------------------------------------------------------------------
Min(a, b) == IF a < b THEN a ELSE b

RootChildren == originalAST.children

\* the outermost call returned rows of a non-empty root level
Returned == pc = "done" /\ merged # NoResult

PkList(rows, pk) == [i \in 1..Len(rows) |-> Get(rows[i], pk)]

\* the logged query of the nested call made for a root-level node
BatchQuery(node) ==
    LET hits == {k \in 1..Len(queries) :
                    /\ queries[k].via = node.type
                    /\ queries[k].depth = 2
                    /\ queries[k].q.table = node.name}
    IN  queries[CHOOSE k \in hits : TRUE]

IsLimitedO2M(node) ==
    /\ node.type = "o2m"
    /\ node.query.limit.t = "n"
    /\ node.query.limit.v >= 0

\* rows of the batched child query that belong to parent row p
BatchRowsOf(node, p) ==
    SelectSeq(BatchQuery(node).rows,
              LAMBDA b : Get(b, node.relation.many_field)
                            = Get(merged.s[p], node.parentKey))

IsM2O(node) == node.type = "m2o" /\ node.relation.kind # "none"

\* the foreign key parent row p of the root level was fetched with
RawForeignKey(node, p) == Get(queries[1].rows[p], node.relation.many_field)

Dangling(node, p) ==
    ~\E k \in 1..Len(database[node.name]) :
        Get(database[node.name][k], node.relation.one_primary) = RawForeignKey(node, p)

RECURSIVE OnlyM2ONodes(_)
OnlyM2ONodes(children) ==
    \A i \in 1..Len(children) :
        children[i].type # "field" =>
            IsM2O(children[i]) /\ OnlyM2ONodes(children[i].children)

\* C2: a parent row of an M2O node whose foreign key matches no related row
\* (a null key included) carries the field key with the value null, and no
\* call over M2O nodes fails other than by a failing query.
C2_M2ODanglingIsNull ==
    /\ Returned =>
          \A i \in 1..Len(RootChildren) :
              IsM2O(RootChildren[i]) =>
                  \A p \in 1..Len(result.s) :
                      Dangling(RootChildren[i], p) =>
                          /\ result.s[p].t = "row"
                          /\ RootChildren[i].fieldKey \in DOMAIN result.s[p].f
                          /\ result.s[p].f[RootChildren[i].fieldKey] = Null
    /\ OnlyM2ONodes(RootChildren) => err \in {"none", "QueryFailure"}

\* one parent has a null foreign key, another one a key of no author
C2_Witness ==
    /\ Returned
    /\ \E i \in 1..Len(RootChildren) :
          /\ IsM2O(RootChildren[i])
          /\ \E p, q \in 1..Len(result.s) :
                /\ RawForeignKey(RootChildren[i], p) = Null
                /\ RawForeignKey(RootChildren[i], q) = N(2)
                /\ Dangling(RootChildren[i], q)
                /\ Get(result.s[p], "author_id") = Null
                /\ Get(result.s[q], "author_id") = Null

IsM2A(node) == node.type = "m2a" /\ node.relation.kind # "none"

Range(seq) == {seq[i] : i \in 1..Len(seq)}

\* the logged queries of the nested call made for a root-level M2A node
M2AQueries(collection) ==
    {k \in 1..Len(queries) :
        /\ queries[k].via = "m2a"
        /\ queries[k].depth = 2
        /\ queries[k].q.table = collection}

\* target collections at least one fetched parent row names
NamedCollections(node) ==
    {c \in Range(node.names) :
        \E p \in 1..Len(queries[1].rows) :
            Get(queries[1].rows[p], node.relation.one_collection_field) = Str(c)}

\* the nested call of the root-level nested node has returned
NestedCallReturned == Returned \/ err = "TypeError in mergeWithParentItems"

\* C3 as stated: the number of queries issued for an M2A node equals the
\* number of target collections named by at least one parent row.
C3_QueriesOnlyForNamedCollections ==
    NestedCallReturned =>
        \A i \in 1..Len(RootChildren) :
            IsM2A(RootChildren[i]) =>
                Cardinality(UNION {M2AQueries(c) : c \in Range(RootChildren[i].names)})
                    = Cardinality(NamedCollections(RootChildren[i]))

\* C3 amended: once the parent level returned rows, the query executor is
\* invoked exactly once for every target collection of an M2A node; for a
\* collection no parent row names the injected IN list is empty and the
\* query returns no rows.
C3_OneQueryPerTargetCollection ==
    NestedCallReturned =>
        \A i \in 1..Len(RootChildren) :
            IsM2A(RootChildren[i]) =>
                \A c \in Range(RootChildren[i].names) :
                    /\ Cardinality(M2AQueries(c)) = 1
                    /\ c \notin NamedCollections(RootChildren[i]) =>
                          \A k \in M2AQueries(c) :
                              /\ queries[k].q.filter.t = "and"
                              /\ \E j \in 1..Len(queries[k].q.filter.fs) :
                                    queries[k].q.filter.fs[j]
                                        = FObj([x \in {RootChildren[i].relatedKey[c]} |-> <<>>])
                              /\ queries[k].rows = <<>>

\* no section names images, and images was queried all the same
C3_Witness ==
    /\ Returned
    /\ \E i \in 1..Len(RootChildren) :
          /\ IsM2A(RootChildren[i])
          /\ NamedCollections(RootChildren[i]) = {"headings"}
          /\ \E k \in M2AQueries("images") : queries[k].rows = <<>>

RootPrimary == primary(originalAST.name)

\* the stripped form of the merged tree of the outermost level
StrippedOnce == removeTemporaryFields(merged, originalAST, RootPrimary, Undef)

StrippedTwice == removeTemporaryFields(StrippedOnce, originalAST, RootPrimary, Undef)

\* C4 as stated: stripping an already stripped tree changes nothing, also at
\* levels where zero fields were requested.
C4_StripIdempotent ==
    (merged # NoResult /\ StrippedOnce # Throw) => StrippedTwice = StrippedOnce

\* every level of the tree requests at least one field or relation, and the
\* level of every M2A node requests the discriminator column
RECURSIVE EveryLevelRequests(_)
EveryLevelRequests(children) ==
    /\ Len(children) > 0
    /\ \A i \in 1..Len(children) :
          LET child == children[i]
          IN  CASE child.type = "field" -> TRUE
                [] child.type # "field" /\ child.relation.kind = "none" -> TRUE
                [] IsM2A(child) ->
                      /\ Includes(FieldsOf(children), child.relation.one_collection_field)
                      /\ \A c \in Range(child.names) : EveryLevelRequests(child.children[c])
                [] OTHER -> EveryLevelRequests(child.children)

\* C4 amended: stripping is idempotent on the tree of an AST that requests
\* at least one field at every level and the discriminator column beside
\* every M2A node.
C4_StripIdempotentWhereFieldsRequested ==
    (merged # NoResult /\ StrippedOnce # Throw /\ EveryLevelRequests(RootChildren))
        => StrippedTwice = StrippedOnce

\* a tree with nested rows from which the first pass removed an injected key
C4_Witness ==
    /\ merged # NoResult
    /\ EveryLevelRequests(RootChildren)
    /\ StrippedOnce # Throw
    /\ StrippedOnce # merged
    /\ \E p \in 1..Len(StrippedOnce.s) :
          \E k \in DOMAIN StrippedOnce.s[p].f :
              /\ StrippedOnce.s[p].f[k].t \in {"row", "list"}
              /\ StrippedOnce.s[p].f[k] # merged.s[p].f[k]

IsScalar(v) == v.t \in {"n", "str"}

\* C5 as stated: where a nested node requests zero fields, the output holds,
\* in place of every related row, the scalar value of the related
\* collection's own primary key.
C5_ZeroFieldsYieldRelatedPrimaryKey ==
    Returned =>
        \A i \in 1..Len(RootChildren) : \A p \in 1..Len(merged.s) :
            LET node == RootChildren[i]
                raw == Get(merged.s[p], node.fieldKey)
                out == Get(result.s[p], node.fieldKey)
                c == Get(merged.s[p], node.relation.one_collection_field).v
            IN  CASE IsM2O(node) /\ Len(node.children) = 0 /\ raw.t = "row" ->
                        IsScalar(out) /\ out = Get(raw, primary(node.name))
                  [] node.type = "o2m" /\ Len(node.children) = 0 /\ raw.t = "list" ->
                        /\ out = List(PkList(raw.s, primary(node.name)))
                        /\ \A j \in 1..Len(out.s) : IsScalar(out.s[j])
                  [] IsM2A(node) /\ raw.t = "row" /\ Len(node.children[c]) = 0 ->
                        IsScalar(out) /\ out = Get(raw, primary(c))
                  [] OTHER -> TRUE

MergedByReference == lastMerge.type \in {"m2o", "m2a"}

BothAttached(p, q) ==
    /\ p # q
    /\ lastMerge.refs[p] # NoObject
    /\ lastMerge.refs[q] # NoObject

\* C6 as stated: after an M2O or M2A merge no two parent rows hold the same
\* child row object.
C6_NoChildSharedByReference ==
    MergedByReference =>
        \A p, q \in 1..Len(lastMerge.refs) :
            BothAttached(p, q) => lastMerge.refs[p] # lastMerge.refs[q]

\* two parent rows name the same child: same key, and same collection
SameChildNamed(p, q) ==
    /\ Get(lastMerge.parentItems[p], lastMerge.nestedNode.fieldKey)
          = Get(lastMerge.parentItems[q], lastMerge.nestedNode.fieldKey)
    /\ lastMerge.type = "m2a" =>
          Get(lastMerge.parentItems[p], lastMerge.nestedNode.relation.one_collection_field)
            = Get(lastMerge.parentItems[q], lastMerge.nestedNode.relation.one_collection_field)

\* C6 amended: after an M2O or M2A merge two parent rows hold the same child
\* row object exactly when they name the same child; the merge attaches the
\* found row itself and makes no copy per parent.
C6_SameChildIsOneObject ==
    MergedByReference =>
        \A p, q \in 1..Len(lastMerge.refs) :
            BothAttached(p, q) =>
                (lastMerge.refs[p] = lastMerge.refs[q] <=> SameChildNamed(p, q))

\* two books of the same author were merged
C6_Witness ==
    /\ lastMerge.type = "m2o"
    /\ \E p, q \in 1..Len(lastMerge.refs) :
          /\ BothAttached(p, q)
          /\ SameChildNamed(p, q)
          /\ lastMerge.refs[p] = lastMerge.refs[q]

RECURSIVE OnlyRequestedKeys(_, _, _, _)
OnlyRequestedKeys(out, raw, ast, parentRaw) ==
    CASE out.t = "list" ->
            \A j \in 1..Len(out.s) : OnlyRequestedKeys(out.s[j], raw.s[j], ast, parentRaw)
      [] out.t = "row" ->
            LET children ==
                    IF ast.type = "m2a"
                    THEN ast.children[Get(parentRaw, ast.relation.one_collection_field).v]
                    ELSE ast.children
            IN  Len(children) > 0 =>
                    /\ DOMAIN out.f \subseteq Range(FieldsOf(children))
                    /\ \A i \in 1..Len(children) :
                          IsNested(children[i]) =>
                              OnlyRequestedKeys(Get(out, children[i].fieldKey),
                                                Get(raw, children[i].fieldKey),
                                                children[i], raw)
      [] OTHER -> TRUE

\* C8: in the result of an outermost call every row of a level that requests
\* at least one field or relation has only keys the original AST requests
\* at that level.
C8_OnlyRequestedKeysReturned ==
    Returned => OnlyRequestedKeys(result, merged, originalAST, Undef)

\* the injected primary key and the forced O2M foreign key were fetched and
\* are gone from the parent row and from its attached children
C8_Witness ==
    /\ Returned
    /\ \E p \in 1..Len(result.s) :
          /\ result.s[p].t = "row"
          /\ DOMAIN result.s[p].f = {"name", "books"}
          /\ "id" \in DOMAIN merged.s[p].f
          /\ Get(result.s[p], "books").t = "list"
          /\ Get(result.s[p], "books").s[1].t = "row"
          /\ DOMAIN Get(result.s[p], "books").s[1].f = {"title"}
          /\ {"id", "author_id"} \subseteq DOMAIN Get(merged.s[p], "books").s[1].f

HasNodeWithoutRelation ==
    \E i \in 1..Len(RootChildren) :
        RootChildren[i].type # "field" /\ RootChildren[i].relation.kind = "none"

RootLevelHasRows == Len(queries) >= 1 /\ queries[1].ok /\ Len(queries[1].rows) > 0

\* the AST with the nodes that have no relation descriptor left out
WithoutUnrelatedNodes ==
    [originalAST EXCEPT !.children =
        SelectSeq(@, LAMBDA c : c.type = "field" \/ c.relation.kind # "none")]

\* C9 as stated: with a nested node that has no relation descriptor, a call
\* whose level returns rows fails by nothing but a failing query, and its
\* result is the one of the AST without that node.
C9_NodeWithoutRelationIsSkipped ==
    (HasNodeWithoutRelation /\ RootLevelHasRows) =>
        /\ err \in {"none", "QueryFailure"}
        /\ Returned =>
              result = removeTemporaryFields(merged, WithoutUnrelatedNodes, RootPrimary, Undef)

\* C10: a failing query is the last query of the call: the outermost call
\* has ended with that failure, has returned nothing, and no call is pending
\* that could issue another query.
C10_QueryFailureAbortsCall ==
    \A k \in 1..Len(queries) :
        ~queries[k].ok =>
            /\ k = Len(queries)
            /\ pc = "failed"
            /\ err = "QueryFailure"
            /\ result = NoResult
            /\ stack = <<>>

\* the root level returned rows, the first query of an M2A node failed and
\* the query of its second collection was never issued
C10_Witness ==
    /\ err = "QueryFailure"
    /\ Len(queries) = 2
    /\ Len(queries[1].rows) > 0
    /\ queries[2].via = "m2a"
    /\ queries[2].q.table = "headings"
    /\ ~queries[2].ok

\* the root query of the outermost call was answered with no rows
RootLevelEmpty == Len(queries) >= 1 /\ queries[1].ok /\ queries[1].rows = <<>>

\* C11 as stated: when the root query matches no rows, the outermost call
\* returns null.
C11_EmptyRootReturnsNull ==
    (pc = "done" /\ RootLevelEmpty) => result = Null

\* C11 amended: when the root query matches no rows, the outermost call
\* returns the empty sequence; it issues no further query and strips nothing.
C11_EmptyRootReturnsEmptySequence ==
    (pc = "done" /\ RootLevelEmpty) =>
        /\ result = List(<<>>)
        /\ Len(queries) = 1
        /\ merged = NoResult

\* a call over an empty books table with a nested node in the AST returned
C11_Witness ==
    /\ pc = "done"
    /\ RootLevelEmpty
    /\ \E i \in 1..Len(RootChildren) : IsM2O(RootChildren[i])
    /\ result = List(<<>>)

AscendingByPrimaryKey(collection) ==
    [t |-> "sort", column |-> primary(collection), order |-> "asc"]

RowsAscending(rows, column) ==
    \A i, j \in 1..Len(rows) :
        i < j => Get(rows[i], column).v <= Get(rows[j], column).v

\* C12 as stated: the query executed for a level whose logical query names
\* no sort is ordered ascending by the primary key of the collection, and
\* its rows arrive in that order.
C12_DefaultSortIsExecuted ==
    \A k \in 1..Len(queries) :
        queries[k].ok =>
            /\ queries[k].q.sort = AscendingByPrimaryKey(queries[k].q.table)
            /\ RowsAscending(queries[k].rows, primary(queries[k].q.table))

HasCallerFilter(node) ==
    node.type \in {"m2o", "o2m"} /\ node.relation.kind # "none"
        /\ node.query.filter.t # "undef"

\* the column of the related collection the injected IN condition is on
JoinColumn(node) ==
    IF node.type = "m2o" THEN node.relation.one_primary ELSE node.relation.many_field

\* the parent rows' keys the IN condition is built from
ParentKeyColumn(node) ==
    IF node.type = "m2o" THEN node.relation.many_field ELSE node.parentKey

\* the nested query of a root-level node was issued
BatchQueryIssued(node) ==
    \E k \in 1..Len(queries) :
        /\ queries[k].via = node.type
        /\ queries[k].depth = 2
        /\ queries[k].q.table = node.name

\* C13 as stated: a row of the related collection satisfies the filter of the
\* child query, after the parent keys were injected, only if it satisfies
\* the caller's filter and has its join column among the parent keys.
C13_InjectedFilterIsConjunction ==
    \A i \in 1..Len(RootChildren) :
        (HasCallerFilter(RootChildren[i]) /\ BatchQueryIssued(RootChildren[i])) =>
            LET node == RootChildren[i]
                keys == ValuesOf(queries[1].rows, ParentKeyColumn(node))
            IN  \A r \in 1..Len(database[node.name]) :
                    LET row == database[node.name][r]
                    IN  Matches(row, BatchQuery(node).q.filter) =>
                            /\ Matches(row, node.query.filter)
                            /\ Includes(keys, Get(row, JoinColumn(node)))

HasWildcard(children) == \E i \in 1..Len(children) : children[i] = Field("*")

\* the declared columns of a level that are not the field key of a nested
\* node of that level
PlainColumns(collection, children) ==
    {c \in Range(columns(collection)) :
        ~\E i \in 1..Len(children) :
            children[i].type # "field" /\ children[i].fieldKey = c}

\* C14 as stated: at a level whose AST holds the wildcard field node, every
\* row of the result carries every declared column of the collection with
\* the value that was fetched, at the root level and in attached children.
C14_WildcardYieldsEveryColumn ==
    Returned =>
        /\ HasWildcard(RootChildren) =>
              \A p \in 1..Len(result.s) :
                  \A c \in PlainColumns(originalAST.name, RootChildren) :
                      Get(result.s[p], c) = Get(queries[1].rows[p], c)
        /\ \A i \in 1..Len(RootChildren) :
              (RootChildren[i].type = "o2m" /\ HasWildcard(RootChildren[i].children)) =>
                  \A p \in 1..Len(result.s) :
                      LET node == RootChildren[i]
                          attached == Get(merged.s[p], node.fieldKey)
                      IN  attached.t = "list" =>
                              \A j \in 1..Len(attached.s) :
                                  \A c \in PlainColumns(node.name, node.children) :
                                      /\ Get(result.s[p], node.fieldKey).t = "list"
                                      /\ Get(Get(result.s[p], node.fieldKey).s[j], c)
                                            = Get(attached.s[j], c)

IsSingleTarget(node) == IsNested(node) /\ node.type \in {"m2o", "o2m"}

\* number of times the query executor was invoked for a nested node by the
\* invocation at the given depth of the call stack
QueryCount(node, depth) ==
    Cardinality({k \in 1..Len(queries) :
                    /\ queries[k].via = node.type
                    /\ queries[k].depth = depth
                    /\ queries[k].q.table = node.name})

ZeroOrOne(rows) == IF Len(rows) > 0 THEN 1 ELSE 0

\* C15: the query executor is never invoked more than once for an M2O or O2M
\* node per visit of its parent level; once the outermost call has returned
\* it was invoked exactly once for the node when the parent level returned
\* rows, however many, and not at all when the parent level returned none.
\* Checked for the nodes of the root level and of the level below an O2M
\* node.
C15_OneQueryPerNodePerLevel ==
    \A i \in 1..Len(RootChildren) :
        IsSingleTarget(RootChildren[i]) =>
            LET node == RootChildren[i]
            IN  /\ QueryCount(node, 2) <= 1
                /\ pc = "done" => QueryCount(node, 2) = ZeroOrOne(queries[1].rows)
                /\ \A j \in 1..Len(node.children) :
                      IsSingleTarget(node.children[j]) =>
                          /\ QueryCount(node.children[j], 3) <= 1
                          /\ pc = "done" =>
                                QueryCount(node.children[j], 3)
                                    = IF QueryCount(node, 2) = 0 THEN 0
                                      ELSE ZeroOrOne(BatchQuery(node).rows)

\* two authors with books of their own: one query for the books of both, and
\* one query for the authors their books refer back to
C15_Witness ==
    /\ pc = "done"
    /\ Len(queries) = 3
    /\ Len(queries[1].rows) = 2
    /\ queries[2].via = "o2m"
    /\ Len(queries[2].rows) >= 2
    /\ \E a, b \in 1..Len(queries[2].rows) :
          Get(queries[2].rows[a], "author_id") # Get(queries[2].rows[b], "author_id")
    /\ queries[3].via = "m2o"
    /\ queries[3].depth = 3

\* the IN list the child query of a root-level node carries on its join column
InjectedIn(node) == BatchQuery(node).q.filter.m[JoinColumn(node)]

\* the non-null keys of the fetched parent rows
NonNullParentKeys(node) ==
    {v \in Range(ValuesOf(queries[1].rows, ParentKeyColumn(node))) : v # Null}

\* C16 as stated: the IN list injected for an M2O or O2M node holds every
\* non-null key of the parent rows, 0 included, exactly once, and no null.
C16_InListIsDistinctNonNullKeys ==
    \A i \in 1..Len(RootChildren) :
        (IsSingleTarget(RootChildren[i]) /\ BatchQueryIssued(RootChildren[i])) =>
            /\ Range(InjectedIn(RootChildren[i])) = NonNullParentKeys(RootChildren[i])
            /\ Cardinality(Range(InjectedIn(RootChildren[i])))
                  = Len(InjectedIn(RootChildren[i]))

IsUnlimitedO2M(node) == node.type = "o2m" /\ node.query.limit = N(-1)

\* C17 as stated: with the unlimited sentinel -1 as the limit of an O2M node,
\* every parent row is attached all of its rows of the batched child query,
\* null when it has none.
C17_UnlimitedKeepsEveryChild ==
    Returned =>
        \A i \in 1..Len(RootChildren) :
            IsUnlimitedO2M(RootChildren[i]) =>
                \A p \in 1..Len(merged.s) :
                    LET mine == BatchRowsOf(RootChildren[i], p)
                        attached == Get(merged.s[p], RootChildren[i].fieldKey)
                    IN  IF Len(mine) = 0 THEN attached = Null
                        ELSE /\ attached.t = "list"
                             /\ PkList(attached.s, "id") = PkList(mine, "id")

\* C18 as stated: the merge of an M2A node never fails, whatever the
\* discriminator of a parent row is, and leaves under the field key either
\* the row of the discriminated collection whose remote key equals the
\* parent's foreign key, or null.
C18_M2AMergeNeverFails ==
    /\ err # "TypeError in mergeWithParentItems"
    /\ Returned =>
          \A i \in 1..Len(RootChildren) :
              IsM2A(RootChildren[i]) =>
                  \A p \in 1..Len(merged.s) :
                      LET node == RootChildren[i]
                          attached == Get(merged.s[p], node.fieldKey)
                          d == Get(queries[1].rows[p], node.relation.one_collection_field)
                      IN  \/ attached = Null
                          \/ /\ attached.t = "row"
                             /\ d.t = "str"
                             /\ d.v \in Range(node.names)
                             /\ Get(attached, node.relatedKey[d.v])
                                   = Get(queries[1].rows[p], node.relation.many_field)

HasNoLimit(node) == node.type = "o2m" /\ node.query.limit.t = "undef"

\* number of children attached under fieldKey over all rows
TotalAttached(rows, fieldKey) ==
    Cardinality(UNION {{p} \X (1..Len(Get(rows[p], fieldKey).s)) :
                          p \in {q \in 1..Len(rows) : Get(rows[q], fieldKey).t = "list"}})

\* rows of the related table that refer to parent row p of the root level
RelatedRowsOf(node, p) ==
    SelectSeq(database[node.name],
              LAMBDA b : Get(b, node.relation.many_field)
                            = Get(queries[1].rows[p], node.parentKey))

====
